---- MODULE Spec2Model ----
(***************************************************************************)
(* Model of the playlist download pipeline of src/main.py:                  *)
(* SpotifyDownloader.download_playlist and the per-track units it runs on   *)
(* a thread pool (_process_track -> _get_youtube_url -> _download_track ->  *)
(* _normalize_audio), then _create_zip and main's use of the result.        *)
(*                                                                          *)
(* File names are sequences of one-character strings, so that the f-string  *)
(* formatting and the glob patterns of the code are computed, not assumed.  *)
(* The playlist's output directory is a set of files [n |-> name,           *)
(* c |-> content], the content being the locator the audio came from.       *)
(* A unit takes one step per filesystem or network call, so that the units  *)
(* of a run interleave at those calls; a cleanup unlink that directly       *)
(* follows a failure is part of the failing step. The external              *)
(* collaborators (catalog, search, download, ffmpeg, OS errors on unlink    *)
(* and rename) choose their outcome nondeterministically.                   *)
(***************************************************************************)
EXTENDS Integers, Sequences, FiniteSets, TLC

\* ------------------------------------------------------------------ bounds
\* Longest track listing the catalog returns in the model.
MaxTracks == 2

\* Size of the listing in the runs that fill the pool.
PoolTracks == 16

\* Longest text normalize_filename is called on directly.
MaxTextLen == 3

\* --------------------------------------------------------------- constants
MAX_WORKERS == 15
HASH_MOD == 10000
RENAME_ATTEMPTS == 2
SWAP_ATTEMPTS == 3

None == "None"

\* ------------------------------------------------------------ text helpers
MP3 == <<".", "m", "p", "3">>
TEMP_PREFIX == <<"t", "e", "m", "p", "_">>
NORM_PREFIX == <<"n", "o", "r", "m", "_">>
SEP == <<" ", "-", " ">>
COMMA == <<",", " ">>

StartsWith(s, pre) ==
    /\ Len(s) >= Len(pre)
    /\ SubSeq(s, 1, Len(pre)) = pre

EndsWith(s, suf) ==
    /\ Len(s) >= Len(suf)
    /\ SubSeq(s, Len(s) - Len(suf) + 1, Len(s)) = suf

Contains(s, sub) ==
    \E k \in 0..(Len(s) - Len(sub)) : SubSeq(s, k + 1, k + Len(sub)) = sub

\* str(n) for n >= 0
DigitChar(d) == <<"0", "1", "2", "3", "4", "5", "6", "7", "8", "9">>[d + 1]

RECURSIVE Digits(_)
Digits(n) == IF n < 10 THEN <<DigitChar(n)>>
             ELSE Digits(n \div 10) \o <<DigitChar(n % 10)>>

\* ------------------------------------------------------ normalize_filename
Forbidden == {"\\", "/", ".", ":", "*", "?", "\"", "<", ">", "|"}
Whitespace == {" ", "\t", "\n"}

\* (mutant) only the path separators are replaced
TranslateSeparatorsOnly(text) ==
    [k \in 1..Len(text) |-> IF text[k] \in {"\\", "/"} THEN "_" ELSE text[k]]

\* text.translate(str.maketrans('\\/.:*?"<>|', '__________'))
Translate(text) ==
    [k \in 1..Len(text) |-> IF text[k] \in Forbidden THEN "_" ELSE text[k]]

RECURSIVE LStrip(_)
LStrip(s) == IF s # <<>> /\ Head(s) \in Whitespace THEN LStrip(Tail(s)) ELSE s

RECURSIVE RStrip(_)
RStrip(s) == IF s # <<>> /\ s[Len(s)] \in Whitespace
             THEN RStrip(SubSeq(s, 1, Len(s) - 1)) ELSE s

normalize_filename(text) == RStrip(LStrip(Translate(text)))

\* --------------------------------------------------------------- the inputs
\* A number that may be null is <<n>>, and <<>> when it is null (None).
Null == <<>>
Num(n) == <<n>>
Value(v) == v[1]

\* A track whose name has a bracketed part, as in "Song [Live]".
BracketTrack ==
    [name |-> <<"y", "[", "z", "]">>, artists |-> << <<"A">> >>, duration_ms |-> Num(0)]

\* Track records as the catalog returns them (name, artists, duration_ms).
\* The third record lacks its duration (duration_ms is null).
TrackPool ==
    { [name |-> <<"x">>, artists |-> << <<"A">> >>, duration_ms |-> Num(2000)],
      [name |-> <<" ", "x", "/">>, artists |-> << <<"B">> >>, duration_ms |-> Num(0)],
      [name |-> <<"z">>, artists |-> << <<"A">> >>, duration_ms |-> Null],
      BracketTrack }

RECURSIVE SeqsUpTo(_, _)
SeqsUpTo(S, n) ==
    IF n = 0 THEN {<<>>}
    ELSE LET shorter == SeqsUpTo(S, n - 1)
         IN  shorter \cup {Append(s, x) : s \in {t \in shorter : Len(t) = n - 1}, x \in S}

Playlists == SeqsUpTo(TrackPool, MaxTracks)

\* Resource locators the search provider may return, and the value of
\* hash(url) in this process (str hashes are salted per process: the table is
\* one assignment; the locators are opaque, so the choice of locator ranges
\* over the collision patterns).
URLs == {"u1", "u2", "u3"}

hash(url) == CASE url = "u1" -> 12
               [] url = "u2" -> 123
               [] url = "u3" -> -9988

\* Candidate durations (seconds) the search provider reports: a number or a
\* null value; an entry may also have no 'duration' key at all.
Durations == {Null, Num(1), Num(3)}

Entries == [url : URLs \cup {None}, duration : Durations]
           \cup [url : URLs \cup {None}]

\* ytsearch2: at most two entries
SearchResults == {<<>>} \cup {<<e>> : e \in Entries}
                 \cup {<<e1, e2>> : e1 \in Entries, e2 \in Entries}

\* ------------------------------------------------------------------- state
VARIABLES
    ffmpeg_available,   \* self.ffmpeg_available, set by _setup_system
    normalize_env,      \* os.environ NORMALIZE_AUDIO is 'true' (or unset)
    dirExists,          \* the playlist's output directory exists
    fs,                 \* its files: a set of [n |-> name, c |-> content]
    cpc,                \* where download_playlist / main stands
    tracks,             \* the track listing of the run
    futIdx,             \* the future the coordinator is waiting on
    result,             \* what download_playlist returned
    zipExists,          \* a file exists at zip_path
    zipEntries,         \* the entry names of that archive
    zipStatus,          \* how _create_zip ended: "none", "ok", or the call
                        \* that raised: "error_open", "error_write",
                        \* "error_rmtree"
    serverStarted,      \* main started the file server
    pc,                 \* per unit: where _process_track stands
    url,                \* per unit: the resolved locator
    tempFile,           \* per unit: downloaded_files[0]
    attempt,            \* per unit: the retry loop's counter
    probe               \* a direct call of one function: its arguments and
                        \* the values returned so far (NoProbe in a run)

vars == <<ffmpeg_available, normalize_env, dirExists, fs, cpc, tracks, futIdx,
          result, zipExists, zipEntries, zipStatus, serverStarted, pc, url,
          tempFile, attempt, probe>>

env == <<ffmpeg_available, normalize_env>>
coord == <<cpc, tracks, futIdx, result, zipExists, zipEntries, zipStatus,
           serverStarted>>

ZIP_PATH == "zip_path"

NoProbe == [fn |-> "none"]

Units == 1..Len(tracks)

\* How a unit ends: the return (or raise) of _process_track.
Final == {"exists", "raised", "unresolved", "fetch_failed", "fetched_gone",
          "norm_ok", "norm_failed"}

Running(i) == pc[i] \notin Final \cup {"queued"}

\* ---------------------------------------------------- names built by a unit
RECURSIVE Join(_)
Join(names) == IF Len(names) = 0 THEN <<>>
               ELSE IF Len(names) = 1 THEN names[1]
               ELSE names[1] \o COMMA \o Join(Tail(names))

track_name(t) == normalize_filename(t.name)
artist_name(t) == normalize_filename(Join(t.artists))
final_filename(t) == artist_name(t) \o SEP \o track_name(t)
final_path(t) == final_filename(t) \o MP3
FinalName(i) == final_path(tracks[i])
temp_filename(u) == TEMP_PREFIX \o Digits(hash(u) % HASH_MOD)
TempName(u) == temp_filename(u) \o MP3
temp_path(name) == NORM_PREFIX \o name

\* ------------------------------------------------------------ glob patterns
\* Path.glob matches a name as fnmatch does: "[seq]" in a pattern stands for
\* one character of seq, "[!seq]" for one character not in seq, and a "["
\* that no "]" closes stands for itself. (Ranges "a-z" are not modelled: no
\* name of the model has a "-" between brackets. "*" and "?" cannot occur
\* in a normalized name.) A token is the set of characters it matches.
RECURSIVE ClassEnd(_, _)
ClassEnd(pat, j) == IF j > Len(pat) THEN 0
                    ELSE IF pat[j] = "]" THEN j
                    ELSE ClassEnd(pat, j + 1)

RECURSIVE GlobTokens(_)
GlobTokens(pat) ==
    IF pat = <<>> THEN <<>>
    ELSE IF Head(pat) = "["
    THEN LET neg == Len(pat) >= 2 /\ pat[2] = "!"
             first == IF neg THEN 3 ELSE 2
             from == IF first <= Len(pat) /\ pat[first] = "]"
                     THEN first + 1 ELSE first
             close == ClassEnd(pat, from)
         IN  IF close = 0
             THEN <<[neg |-> FALSE, chars |-> {"["}]>> \o GlobTokens(Tail(pat))
             ELSE <<[neg |-> neg, chars |-> {pat[k] : k \in first..(close - 1)}]>>
                  \o GlobTokens(SubSeq(pat, close + 1, Len(pat)))
    ELSE <<[neg |-> FALSE, chars |-> {Head(pat)}]>> \o GlobTokens(Tail(pat))

TokenMatches(tok, c) == (c \in tok.chars) # tok.neg

\* "*{track_name}*.mp3"
MatchesTrackPattern(tn, name) ==
    LET toks == GlobTokens(tn)
        stem == SubSeq(name, 1, Len(name) - Len(MP3))
    IN  /\ EndsWith(name, MP3)
        /\ \E k \in 1..(Len(stem) - Len(toks) + 1) :
              \A j \in 1..Len(toks) : TokenMatches(toks[j], stem[k + j - 1])

\* "{temp_filename}*.mp3"
MatchesTempPattern(tf, name) ==
    /\ Len(name) >= Len(tf) + Len(MP3)
    /\ StartsWith(name, tf)
    /\ EndsWith(name, MP3)

\* "*.mp3"
MatchesMp3(name) == EndsWith(name, MP3)

\* ------------------------------------------------------------- filesystem
Exists(name) == \E f \in fs : f.n = name
ContentOf(dir, name) == (CHOOSE f \in dir : f.n = name).c
Remove(dir, name) == {f \in dir : f.n # name}
Put(dir, name, c) == Remove(dir, name) \cup {[n |-> name, c |-> c]}
Rename(dir, src, dst) == Put(Remove(dir, src), dst, ContentOf(dir, src))

\* A directory left by an earlier run of the same playlist.
InitDirs == { {}, {[n |-> <<"A">> \o SEP \o <<"x">> \o MP3, c |-> "old"]},
              {[n |-> final_path(BracketTrack), c |-> "old"]} }

Init ==
    /\ ffmpeg_available \in BOOLEAN
    /\ normalize_env \in BOOLEAN
    /\ (~ffmpeg_available => ~normalize_env)
    /\ fs \in InitDirs
    /\ dirExists = (fs # {})
    /\ cpc = "start"
    /\ tracks = <<>>
    /\ futIdx = 0
    /\ result = None
    /\ zipExists = FALSE
    /\ zipEntries = {}
    /\ zipStatus = "none"
    /\ serverStarted = FALSE
    /\ pc = <<>>
    /\ url = <<>>
    /\ tempFile = <<>>
    /\ attempt = <<>>
    /\ probe = NoProbe

\* -------------------------------------------------------- _get_youtube_url
Abs(n) == IF n < 0 THEN -n ELSE n

\* x.get('duration', 0)
EntryDuration(e) == IF "duration" \in DOMAIN e THEN e.duration ELSE Num(0)

\* min(entries, key=...): the first entry with the least key
BestMatch(entries, duration) ==
    LET key(k) == Abs(Value(EntryDuration(entries[k])) - duration)
        best == CHOOSE k \in 1..Len(entries) :
                    /\ \A j \in 1..Len(entries) : key(k) <= key(j)
                    /\ \A j \in 1..(k - 1) : key(j) > key(k)
    IN  entries[best]

\* What ydl.extract_info does: it raises, or returns a result set.
ProviderError == [error |-> TRUE]
ProviderOutcomes == {ProviderError} \cup [error : {FALSE}, entries : SearchResults]

\* An exception leaving a block of code.
Raise == "Raise"

\* (mutant) `if duration is None`
NoTargetNullOnly(duration) == duration = Null

\* `not duration or duration == 0`
NoTarget(duration) == duration = Null \/ Value(duration) = 0

\* The try block: the value it returns, or Raise. The subtraction in the key
\* of min raises TypeError on a null duration.
TryBody(outcome, duration) ==
    IF outcome.error THEN Raise
    ELSE LET entries == outcome.entries
         IN  IF entries = <<>> THEN None
             ELSE IF NoTarget(duration) THEN entries[1].url
             ELSE IF \E k \in 1..Len(entries) : EntryDuration(entries[k]) = Null
                  THEN Raise
             ELSE BestMatch(entries, Value(duration)).url

\* (mutant) no except clause
CaughtNothing(v) == v

\* except Exception: return None
Caught(v) == IF v = Raise THEN None ELSE v

\* The value _get_youtube_url returns for the provider's outcome and the
\* target duration (a number of seconds, or null).
get_youtube_url(outcome, duration) == Caught(TryBody(outcome, duration))

\* ------------------------------------------------------------------ a unit
Finish(i, how) ==
    /\ pc' = [pc EXCEPT ![i] = how]
    /\ url' = [url EXCEPT ![i] = None]
    /\ tempFile' = [tempFile EXCEPT ![i] = <<>>]
    /\ attempt' = [attempt EXCEPT ![i] = 0]

Goto(i, where) ==
    /\ pc' = [pc EXCEPT ![i] = where]
    /\ UNCHANGED <<url, tempFile, attempt>>

\* (mutant) the pattern written without its wildcards: "{track_name}.mp3"
AlreadyExistsExactName(t) == \E f \in fs : f.n = track_name(t) \o MP3

\* list(playlist_path.glob(filename_pattern)) is not empty
AlreadyExists(t) == \E f \in fs : MatchesTrackPattern(track_name(t), f.n)

\* (mutant) the pool admits one worker more than max_workers
WorkerFreeOffByOne == Cardinality({j \in Units : Running(j)}) <= MAX_WORKERS

\* ThreadPoolExecutor(max_workers=MAX_WORKERS): a submitted unit starts only
\* while fewer than MAX_WORKERS units are running.
WorkerFree == Cardinality({j \in Units : Running(j)}) < MAX_WORKERS

\* A pool worker takes the next queued unit; _process_track up to the call of
\* the resolver: the names, the already-exists check, the duration.
Start(i) ==
    /\ pc[i] = "queued"
    /\ \A j \in 1..(i - 1) : pc[j] # "queued"
    /\ WorkerFree
    /\ IF AlreadyExists(tracks[i]) THEN Finish(i, "exists")
       ELSE IF tracks[i].duration_ms = Null THEN Finish(i, "raised")
       ELSE Goto(i, "resolve")
    /\ UNCHANGED <<probe, env, dirExists, fs, coord>>

\* What _get_youtube_url may return for a target duration, over the
\* outcomes of the provider.
Resolutions(duration) ==
    {get_youtube_url(outcome, duration) : outcome \in ProviderOutcomes}

\* duration = track['duration_ms'] // 1000, the resolver, `if not youtube_url`
Resolve(i) ==
    /\ pc[i] = "resolve"
    /\ \E u \in Resolutions(Num(Value(tracks[i].duration_ms) \div 1000)) :
          IF u = None THEN Finish(i, "unresolved")
          ELSE /\ pc' = [pc EXCEPT ![i] = "download"]
               /\ url' = [url EXCEPT ![i] = u]
               /\ UNCHANGED <<tempFile, attempt>>
    /\ UNCHANGED <<probe, env, dirExists, fs, coord>>

\* (mutant) no except clause around the download: the exception leaves
\* _download_track and _process_track
DownloadRaisedPropagates(i) == Finish(i, "raised")

\* except Exception in _download_track: return None
DownloadRaised(i) == Finish(i, "fetch_failed")

\* ydl.download([url]): writes temp_<h>.mp3, or fails without a file
\* (ignoreerrors), or raises.
Download(i) ==
    /\ pc[i] = "download"
    /\ \/ /\ fs' = Put(fs, TempName(url[i]), url[i])
          /\ Goto(i, "glob")
       \/ /\ fs' = fs
          /\ Goto(i, "glob")
       \/ /\ fs' = fs
          /\ DownloadRaised(i)
    /\ UNCHANGED <<probe, env, dirExists, coord>>

DownloadedFiles(u) ==
    {f.n : f \in {g \in fs : MatchesTempPattern(temp_filename(u), g.n)}}

Glob(i) ==
    /\ pc[i] = "glob"
    /\ IF DownloadedFiles(url[i]) = {} THEN Finish(i, "fetch_failed")
       ELSE \E name \in DownloadedFiles(url[i]) :
              /\ pc' = [pc EXCEPT ![i] = "rename"]
              /\ tempFile' = [tempFile EXCEPT ![i] = name]
              /\ attempt' = [attempt EXCEPT ![i] = 0]
              /\ url' = url
    /\ UNCHANGED <<probe, env, dirExists, fs, coord>>

\* (mutant) the loop runs one time more than range(2)
MoreRenameAttemptsOffByOne(i) == attempt[i] + 1 <= RENAME_ATTEMPTS

\* for attempt in range(2): another iteration follows the failed one
MoreRenameAttempts(i) == attempt[i] + 1 < RENAME_ATTEMPTS

\* temp_file.rename(final_path), at most RENAME_ATTEMPTS times
RenameTemp(i) ==
    /\ pc[i] = "rename"
    /\ \/ /\ Exists(tempFile[i])
          /\ fs' = Rename(fs, tempFile[i], FinalName(i))
          /\ Goto(i, "fetched")
       \/ /\ fs' = fs
          /\ IF MoreRenameAttempts(i)
             THEN /\ attempt' = [attempt EXCEPT ![i] = @ + 1]
                  /\ UNCHANGED <<pc, url, tempFile>>
             ELSE Finish(i, "fetch_failed")
    /\ UNCHANGED <<probe, env, dirExists, coord>>

\* (mutant) the NORMALIZE_AUDIO switch is not consulted
NormalizationOffFfmpegOnly == ~ffmpeg_available

\* The two early returns of _normalize_audio: ffmpeg is not available, or
\* NORMALIZE_AUDIO is not 'true'.
NormalizationOff == ~ffmpeg_available \/ ~normalize_env

\* downloaded_file.exists(), then the two switches of _normalize_audio
Fetched(i) ==
    /\ pc[i] = "fetched"
    /\ IF ~Exists(FinalName(i)) THEN Finish(i, "fetched_gone")
       ELSE IF NormalizationOff THEN Finish(i, "norm_ok")
       ELSE Goto(i, "norm_check")
    /\ UNCHANGED <<probe, env, dirExists, fs, coord>>

\* if not file_path.exists(): return False
NormCheck(i) ==
    /\ pc[i] = "norm_check"
    /\ IF ~Exists(FinalName(i)) THEN Finish(i, "norm_failed")
       ELSE /\ pc' = [pc EXCEPT ![i] = "ffmpeg"]
            /\ UNCHANGED <<url, tempFile, attempt>>
    /\ UNCHANGED <<probe, env, dirExists, fs, coord>>

\* subprocess.run(ffmpeg ...) and the branch on its result: the swap loop is
\* entered, or the output is unlinked and False returned, or an except
\* clause returns False
Ffmpeg(i) ==
    LET fp == FinalName(i)
        tp == temp_path(fp)
        written == Put(fs, tp, ContentOf(fs, fp))
    IN
    /\ pc[i] = "ffmpeg"
    /\ \/ \* exit code 0 and the output exists
          /\ Exists(fp)
          /\ fs' = written
          /\ pc' = [pc EXCEPT ![i] = "swap_unlink"]
          /\ attempt' = [attempt EXCEPT ![i] = 0]
          /\ UNCHANGED <<url, tempFile>>
       \/ \* failure; the output, if any, is unlinked
          /\ fs' = Remove(fs, tp)
          /\ Finish(i, "norm_failed")
       \/ \* failure; the unlink of the output raises
          /\ Exists(fp) \/ Exists(tp)
          /\ fs' = IF Exists(fp) THEN written ELSE fs
          /\ Finish(i, "norm_failed")
       \/ \* TimeoutExpired (or another exception) before any output was created
          /\ fs' = fs
          /\ Finish(i, "norm_failed")
       \/ \* TimeoutExpired after the output was created
          /\ Exists(fp)
          /\ fs' = written
          /\ Finish(i, "norm_failed")
    /\ UNCHANGED <<probe, env, dirExists, coord>>

\* except OSError inside the swap loop: the next attempt, or after the last
\* one the unlink of temp_path (which may raise) and return False
SwapFailed(i) ==
    IF attempt[i] < SWAP_ATTEMPTS - 1
    THEN /\ fs' = fs
         /\ pc' = [pc EXCEPT ![i] = "swap_unlink"]
         /\ attempt' = [attempt EXCEPT ![i] = @ + 1]
         /\ UNCHANGED <<url, tempFile>>
    ELSE /\ \/ fs' = Remove(fs, temp_path(FinalName(i)))
            \/ /\ Exists(temp_path(FinalName(i)))
               /\ fs' = fs
         /\ Finish(i, "norm_failed")

\* file_path.unlink()
SwapUnlink(i) ==
    /\ pc[i] = "swap_unlink"
    /\ \/ /\ Exists(FinalName(i))
          /\ fs' = Remove(fs, FinalName(i))
          /\ Goto(i, "swap_rename")
       \/ SwapFailed(i)
    /\ UNCHANGED <<probe, env, dirExists, coord>>

\* temp_path.rename(file_path)
SwapRename(i) ==
    /\ pc[i] = "swap_rename"
    /\ \/ /\ Exists(temp_path(FinalName(i)))
          /\ fs' = Rename(fs, temp_path(FinalName(i)), FinalName(i))
          /\ Finish(i, "norm_ok")
       \/ SwapFailed(i)
    /\ UNCHANGED <<probe, env, dirExists, coord>>

\* ---------------------------------------------------------- the coordinator
\* (mutant) the directory made before the lookup
PlaylistLookupMkdirFirst ==
    /\ cpc = "start"
    /\ dirExists' = TRUE
    /\ \/ cpc' = "listing" /\ result' = result
       \/ cpc' = "returned" /\ result' = None
    /\ UNCHANGED <<probe, env, fs, tracks, futIdx, zipExists, zipEntries, zipStatus,
                   serverStarted, pc, url, tempFile, attempt>>

\* self.sp.playlist(playlist_id), then playlist_path.mkdir(exist_ok=True)
PlaylistLookup ==
    /\ cpc = "start"
    /\ \/ /\ dirExists' = TRUE
          /\ cpc' = "listing"
          /\ result' = result
       \/ /\ dirExists' = dirExists
          /\ cpc' = "returned"
          /\ result' = None
    /\ UNCHANGED <<probe, env, fs, tracks, futIdx, zipExists, zipEntries, zipStatus,
                   serverStarted, pc, url, tempFile, attempt>>

\* self._get_all_tracks(playlist_id), then one executor.submit per track
GetAllTracks ==
    /\ cpc = "listing"
    /\ \/ \E listing \in Playlists :
            /\ tracks' = listing
            /\ pc' = [i \in 1..Len(listing) |-> "queued"]
            /\ url' = [i \in 1..Len(listing) |-> None]
            /\ tempFile' = [i \in 1..Len(listing) |-> <<>>]
            /\ attempt' = [i \in 1..Len(listing) |-> 0]
            /\ futIdx' = 1
            /\ cpc' = "await"
            /\ result' = result
       \/ /\ cpc' = "returned"
          /\ result' = None
          /\ UNCHANGED <<tracks, pc, url, tempFile, attempt, futIdx>>
    /\ UNCHANGED <<probe, env, dirExists, fs, zipExists, zipEntries, zipStatus,
                   serverStarted>>

\* (mutant) a future that is running counts as done
FutureDoneOrRunning(i) == pc[i] # "queued"

\* The future of unit i has a result or an exception.
FutureDone(i) == pc[i] \in Final

\* for future in futures: future.result()
AwaitResult ==
    /\ cpc = "await"
    /\ IF futIdx > Len(tracks)
       THEN /\ cpc' = "pool_exit"
            /\ futIdx' = 0
       ELSE /\ FutureDone(futIdx)
            /\ IF pc[futIdx] = "raised"
               THEN /\ cpc' = "pool_exit_exc"
                    /\ futIdx' = 0
               ELSE /\ cpc' = cpc
                    /\ futIdx' = futIdx + 1
    /\ UNCHANGED <<probe, env, dirExists, fs, tracks, result, zipExists, zipEntries,
                   zipStatus, serverStarted, pc, url, tempFile, attempt>>

\* Leaving the with block: executor.shutdown(wait=True); then either the
\* archive step, or the except clause of download_playlist.
PoolExit ==
    /\ cpc \in {"pool_exit", "pool_exit_exc"}
    /\ \A i \in Units : FutureDone(i)
    /\ IF cpc = "pool_exit"
       THEN /\ cpc' = "zip_open"
            /\ result' = result
       ELSE /\ cpc' = "returned"
            /\ result' = None
    /\ UNCHANGED <<probe, env, dirExists, fs, tracks, futIdx, zipExists, zipEntries,
                   zipStatus, serverStarted, pc, url, tempFile, attempt>>

\* _create_zip catches every exception, and download_playlist returns zip_path.
ZipError(call) ==
    /\ zipStatus' = call
    /\ cpc' = "returned"
    /\ result' = ZIP_PATH

\* zipfile.ZipFile(zip_path, 'w', ...)
ZipOpen ==
    /\ cpc = "zip_open"
    /\ \/ /\ zipExists' = TRUE
          /\ zipEntries' = {}
          /\ cpc' = "zip_write"
          /\ UNCHANGED <<zipStatus, result>>
       \/ /\ ZipError("error_open")
          /\ UNCHANGED <<zipExists, zipEntries>>
    /\ UNCHANGED <<probe, env, dirExists, fs, tracks, futIdx, serverStarted, pc, url,
                   tempFile, attempt>>

Mp3Files == {f.n : f \in {g \in fs : MatchesMp3(g.n)}}

\* playlist_path / name: the path glob yields for a directory entry
PLAYLIST_PATH == <<"d", "/">>
PathOf(name) == PLAYLIST_PATH \o name

\* Path.name: the part after the last separator
RECURSIVE BaseName(_)
BaseName(path) == IF \E k \in 1..Len(path) : path[k] = "/"
                  THEN BaseName(Tail(path)) ELSE path

\* (mutant) zipf.write(file_path) without an arcname
ArcNameFullPath(name) == PathOf(name)

\* zipf.write(file_path, file_path.name): the entry's name
ArcName(name) == BaseName(PathOf(name))

\* for file_path in playlist_path.glob("*.mp3"): zipf.write(...), in the
\* directory's order; an error leaves the archive with the entries written.
ZipWrite ==
    /\ cpc = "zip_write"
    /\ \/ /\ zipEntries' = {ArcName(n) : n \in Mp3Files}
          /\ cpc' = "rmtree"
          /\ UNCHANGED <<zipStatus, result>>
       \/ /\ \E written \in (SUBSET Mp3Files) \ {Mp3Files} :
                zipEntries' = {ArcName(n) : n \in written}
          /\ ZipError("error_write")
    /\ UNCHANGED <<probe, env, dirExists, fs, tracks, futIdx, zipExists, serverStarted,
                   pc, url, tempFile, attempt>>

\* shutil.rmtree(playlist_path); an error leaves the files not yet removed.
Rmtree ==
    /\ cpc = "rmtree"
    /\ \/ /\ fs' = {}
          /\ dirExists' = FALSE
          /\ zipStatus' = "ok"
          /\ cpc' = "returned"
          /\ result' = ZIP_PATH
       \/ /\ \E removed \in SUBSET fs : fs' = fs \ removed
          /\ dirExists' = dirExists
          /\ ZipError("error_rmtree")
    /\ UNCHANGED <<probe, env, tracks, futIdx, zipExists, zipEntries, serverStarted,
                   pc, url, tempFile, attempt>>

\* main: if zip_file: server.start()
Main ==
    /\ cpc = "returned"
    /\ cpc' = "done"
    /\ IF result # None
       THEN serverStarted' \in BOOLEAN
       ELSE serverStarted' = FALSE
    /\ UNCHANGED <<probe, env, dirExists, fs, tracks, futIdx, result, zipExists,
                   zipEntries, zipStatus, pc, url, tempFile, attempt>>

Next ==
    \/ PlaylistLookup
    \/ GetAllTracks
    \/ AwaitResult
    \/ PoolExit
    \/ ZipOpen
    \/ ZipWrite
    \/ Rmtree
    \/ Main
    \/ \E i \in Units : Start(i)
    \/ \E i \in Units : Resolve(i)
    \/ \E i \in Units : Download(i)
    \/ \E i \in Units : Glob(i)
    \/ \E i \in Units : RenameTemp(i)
    \/ \E i \in Units : Fetched(i)
    \/ \E i \in Units : NormCheck(i)
    \/ \E i \in Units : Ffmpeg(i)
    \/ \E i \in Units : SwapUnlink(i)
    \/ \E i \in Units : SwapRename(i)

Spec == Init /\ [][Next]_vars


\* ------------------------------------------- a run that fills the pool
\* A listing longer than MAX_WORKERS, in the state download_playlist is in
\* after its submit loop: every unit queued, the output directory empty. The
\* search finds nothing in these runs, so a unit holds its worker for the
\* search and then returns.
PoolTrack == [name |-> <<"x">>, artists |-> << <<"A">> >>, duration_ms |-> Num(2000)]

\* download_playlist after its submit loop for a listing: every unit queued,
\* the output directory made and empty, both normalization switches on.
Dispatched(listing) ==
    /\ ffmpeg_available = TRUE
    /\ normalize_env = TRUE
    /\ fs = {}
    /\ dirExists = TRUE
    /\ cpc = "await"
    /\ tracks = listing
    /\ futIdx = 1
    /\ result = None
    /\ zipExists = FALSE
    /\ zipEntries = {}
    /\ zipStatus = "none"
    /\ serverStarted = FALSE
    /\ pc = [i \in 1..Len(listing) |-> "queued"]
    /\ url = [i \in 1..Len(listing) |-> None]
    /\ tempFile = [i \in 1..Len(listing) |-> <<>>]
    /\ attempt = [i \in 1..Len(listing) |-> 0]
    /\ probe = NoProbe

InitPool == Dispatched([i \in 1..PoolTracks |-> PoolTrack])

\* The step Resolve(i) for an empty result set of the provider:
\* _get_youtube_url returns None, then `if not youtube_url: return`.
NotFound(i) ==
    /\ pc[i] = "resolve"
    /\ get_youtube_url([error |-> FALSE, entries |-> <<>>],
                       Num(Value(tracks[i].duration_ms) \div 1000)) = None
    /\ Finish(i, "unresolved")
    /\ UNCHANGED <<probe, env, dirExists, fs, coord>>

NextPool ==
    \/ \E i \in Units : Start(i)
    \/ \E i \in Units : NotFound(i)
    \/ AwaitResult
    \/ PoolExit

\* The pool's threads keep running: some enabled step is eventually taken.
SpecPoolFair == InitPool /\ [][NextPool]_vars /\ WF_vars(NextPool)

\* ------------------------------------- a run of two units, to its pool exit
RetryListing == <<PoolTrack, BracketTrack>>

InitRetry == Dispatched(RetryListing)

NextRetry ==
    \/ AwaitResult
    \/ PoolExit
    \/ \E i \in Units : Start(i)
    \/ \E i \in Units : Resolve(i)
    \/ \E i \in Units : Download(i)
    \/ \E i \in Units : Glob(i)
    \/ \E i \in Units : RenameTemp(i)
    \/ \E i \in Units : Fetched(i)
    \/ \E i \in Units : NormCheck(i)
    \/ \E i \in Units : Ffmpeg(i)
    \/ \E i \in Units : SwapUnlink(i)
    \/ \E i \in Units : SwapRename(i)

\* The coordinator and the pool's threads keep running: while some step is
\* enabled, a step is eventually taken.
SpecRetryFair == InitRetry /\ [][NextRetry]_vars /\ WF_vars(NextRetry)

\* ------------------------------------------------- direct calls
\* One call of _get_youtube_url on a provider outcome and a target duration.
\* rets lists the values returned so far.
TargetDurations == {Null, Num(0), Num(1), Num(2), Num(3)}

ResolverProbes ==
    [fn : {"_get_youtube_url"}, outcome : ProviderOutcomes,
     duration : TargetDurations, rets : {<<>>}]

\* One text, and normalize_filename called on it and then on its own result.
TextChars == {"a", "_", " ", "\t", "/", ".", ":"}
Texts == SeqsUpTo(TextChars, MaxTextLen)

NormalizeProbes == [fn : {"normalize_filename"}, text : Texts, rets : {<<>>}]

InitCalls ==
    /\ probe \in ResolverProbes \cup NormalizeProbes
    /\ ffmpeg_available = FALSE
    /\ normalize_env = FALSE
    /\ fs = {}
    /\ dirExists = FALSE
    /\ cpc = "start"
    /\ tracks = <<>>
    /\ futIdx = 0
    /\ result = None
    /\ zipExists = FALSE
    /\ zipEntries = {}
    /\ zipStatus = "none"
    /\ serverStarted = FALSE
    /\ pc = <<>>
    /\ url = <<>>
    /\ tempFile = <<>>
    /\ attempt = <<>>

CallResolver ==
    /\ probe.fn = "_get_youtube_url"
    /\ probe.rets = <<>>
    /\ probe' = [probe EXCEPT !.rets = <<get_youtube_url(probe.outcome, probe.duration)>>]
    /\ UNCHANGED <<env, dirExists, fs, coord, pc, url, tempFile, attempt>>

CallNormalize ==
    /\ probe.fn = "normalize_filename"
    /\ Len(probe.rets) < 2
    /\ probe' = [probe EXCEPT !.rets =
                    Append(@, normalize_filename(IF @ = <<>> THEN probe.text
                                                 ELSE @[Len(@)]))]
    /\ UNCHANGED <<env, dirExists, fs, coord, pc, url, tempFile, attempt>>

NextCalls ==
    \/ CallResolver
    \/ CallNormalize

SpecCalls == InitCalls /\ [][NextCalls]_vars

\* ================================================================== claims
ZipFailed == zipStatus \in {"error_open", "error_write", "error_rmtree"}
PoolOpen == cpc \in {"await", "pool_exit", "pool_exit_exc"}
Returned == cpc \in {"returned", "done"}
NormalizeReturned(i) == pc[i] \in {"norm_ok", "norm_failed"}
OwnTarget(i) == \A j \in Units \ {i} : FinalName(j) # FinalName(i)
FetchSucceeded(i) == pc[i] \in {"norm_ok", "norm_failed", "fetched_gone"}
InFlight(i) == pc[i] \in {"resolve", "download", "glob", "rename"}

\* C1: after _normalize_audio has returned (on any exit path) for a file that
\* existed when it was called, a file exists at the original path. Stated for
\* a unit that shares its final name with no other unit, while the pool is
\* still open (so nothing but the unit itself touched the path).
C1_FileNeverLost ==
    \A i \in Units :
        (NormalizeReturned(i) /\ OwnTarget(i) /\ PoolOpen)
            => Exists(FinalName(i))

\* C2: after _normalize_audio has returned, on any exit path, the sibling
\* temp file norm_<name> is not in the directory.
C2_NoTempArtifact ==
    \A i \in Units :
        (NormalizeReturned(i) /\ OwnTarget(i) /\ PoolOpen)
            => ~Exists(temp_path(FinalName(i)))

\* C3: an error raised inside _process_track is a skip of that unit:
\* download_playlist still returns the archive path and ran the archive step.
C3_UnitErrorIsSkip ==
    (Returned /\ \E i \in Units : pc[i] = "raised")
        => (result = ZIP_PATH /\ zipStatus # "none")

\* C4: when a unit ended unresolved or with a failed fetch (and no unit
\* raised), the run returns an archive path and every unit whose resolve and
\* fetch succeeded has its file in the archive.
C4_FaultIsolation ==
    (/\ Returned
     /\ \E i \in Units : pc[i] \in {"unresolved", "fetch_failed"}
     /\ \A i \in Units : pc[i] # "raised")
        => /\ result = ZIP_PATH
           /\ \A j \in Units : FetchSucceeded(j) => FinalName(j) \in zipEntries

\* C5: the temp file a unit found by its lookup (and is about to rename) was
\* not written by another running unit that downloads a different locator.
C5_NoTempCollision ==
    \A i \in Units : \A j \in Units \ {i} :
        (pc[i] = "rename" /\ Running(j) /\ url[j] \notin {None, url[i]})
            => ~\E f \in fs : f.n = tempFile[i] /\ f.c = url[j]

\* C6 (as claimed): two units that got past the already-exists check and are
\* on their way to fetch never have the same final file name.
C6_DistinctTargets ==
    \A i \in Units : \A j \in Units \ {i} :
        (InFlight(i) /\ InFlight(j)) => FinalName(i) # FinalName(j)

\* C6 (amended): a unit gets past the already-exists check only in a step in
\* which no file matching "*{track_name}*.mp3" is in the directory.
C6_PastCheckOnlyIfAbsent ==
    [][\A i \in Units :
          (pc[i] = "queued" /\ pc'[i] \notin {"queued", "exists"})
              => ~\E f \in fs : MatchesTrackPattern(track_name(tracks[i]), f.n)
      ]_vars

\* C6 witness: of two units with the same final name, one fetched its file in
\* this run and the other was skipped by the check.
C6_Witness ==
    \E i \in Units : \E j \in Units \ {i} :
        /\ FinalName(i) = FinalName(j)
        /\ pc[i] = "norm_ok"
        /\ pc[j] = "exists"
        /\ Exists(FinalName(i))
        /\ ContentOf(fs, FinalName(i)) \in URLs

\* C7: the step in which _create_zip hits an error leaves the directory as it
\* was, and no file at the archive path.
C7_ZipErrorLeavesNoArchive ==
    [][(~ZipFailed /\ ZipFailed')
          => (fs' = fs /\ dirExists' = dirExists /\ ~zipExists')
      ]_vars

\* C8: download_playlist returns an archive path only when the archive was
\* built, and main starts the server only then.
ArchiveBuilt == zipExists /\ zipStatus \in {"ok", "error_rmtree"}

C8_PathOnlyWhenBuilt ==
    /\ (Returned /\ result = ZIP_PATH) => ArchiveBuilt
    /\ serverStarted => ArchiveBuilt

\* C9: a unit whose fetch succeeded and whose normalization failed has its
\* file under its final name when archiving starts, and in the archive once
\* the files are written.
C9_NormFailureStillDelivered ==
    \A i \in Units :
        pc[i] = "norm_failed"
            => /\ cpc = "zip_open" => Exists(FinalName(i))
               /\ cpc = "rmtree" => FinalName(i) \in zipEntries

\* C10: while _create_zip runs, every unit of the run has completed.
C10_ArchiveAfterAllUnits ==
    cpc \in {"zip_open", "zip_write", "rmtree"}
        => \A i \in Units : pc[i] \in Final

\* C10 witness: the archive is being written after two units ran, one of them
\* through the normalizer.
C10_Witness ==
    /\ cpc = "zip_write"
    /\ Len(tracks) = 2
    /\ \E i \in Units : pc[i] = "norm_ok" /\ ffmpeg_available /\ normalize_env
    /\ \E j \in Units : pc[j] \in {"unresolved", "fetch_failed", "norm_failed"}

\* C11: at every moment at most MAX_WORKERS units are being processed, and
\* every dispatched unit, also one that had to wait for a free worker, is
\* eventually processed (its _process_track has returned or raised).
C11_BoundedPool ==
    /\ [](Cardinality({i \in Units : Running(i)}) <= MAX_WORKERS)
    /\ <>(\A i \in Units : FutureDone(i))

\* All workers are busy and a unit is waiting for one.
C11_Witness ==
    /\ Cardinality({i \in Units : Running(i)}) = MAX_WORKERS
    /\ \E i \in Units : pc[i] = "queued"

\* C12: a unit whose track has its file in the output directory, be it a
\* file matching the pattern "*{track_name}*.mp3" or the file
\* "{artist} - {track}.mp3" an earlier run delivered, is skipped when it
\* starts: no search, no download, no normalization.
C12_PresentFileIsSkipped ==
    [][\A i \in Units :
          (/\ i \in DOMAIN pc'
           /\ pc[i] = "queued"
           /\ pc'[i] # "queued"
           /\ AlreadyExists(tracks[i]) \/ Exists(FinalName(i)))
          => pc'[i] = "exists"]_vars

ResolverReturned ==
    probe.fn = "_get_youtube_url" /\ probe.rets # <<>>

\* C13: for a target duration D > 0 and a non-empty candidate list,
\* _get_youtube_url returns the locator of the first candidate, in the
\* provider's order, that minimizes |d - D|, a candidate with no duration
\* (no 'duration' key, or a null one) counting as d = 0.
C13_ClosestDuration ==
    (/\ ResolverReturned
     /\ ~probe.outcome.error
     /\ probe.outcome.entries # <<>>
     /\ ~(probe.duration = Null)
     /\ Value(probe.duration) > 0)
    => LET entries == probe.outcome.entries
           D == Value(probe.duration)
           d(k) == IF "duration" \in DOMAIN entries[k] /\ entries[k].duration # Null
                   THEN Value(entries[k].duration) ELSE 0
           dist(k) == IF d(k) >= D THEN d(k) - D ELSE D - d(k)
       IN  \E k \in 1..Len(entries) :
              /\ \A j \in 1..Len(entries) : dist(k) <= dist(j)
              /\ \A j \in 1..(k - 1) : dist(j) > dist(k)
              /\ probe.rets[1] = entries[k].url

\* C14: when the target duration is 0 or absent and the candidate list is
\* not empty, _get_youtube_url returns the first candidate's locator,
\* whatever the candidates' durations are.
C14_FirstWhenNoTarget ==
    (/\ ResolverReturned
     /\ ~probe.outcome.error
     /\ probe.outcome.entries # <<>>
     /\ probe.duration \in {Null, Num(0)})
    => probe.rets[1] = probe.outcome.entries[1].url

\* The first of two candidates is returned although the second one's
\* duration is nearer to 0, or the first one's is null.
C14_Witness ==
    /\ ResolverReturned
    /\ ~probe.outcome.error
    /\ probe.duration \in {Null, Num(0)}
    /\ Len(probe.outcome.entries) = 2
    /\ EntryDuration(probe.outcome.entries[1]) \in {Null, Num(3)}
    /\ EntryDuration(probe.outcome.entries[2]) = Num(1)
    /\ probe.outcome.entries[1].url = "u1"
    /\ probe.outcome.entries[2].url = "u2"
    /\ probe.rets = <<"u1">>

\* C15: _get_youtube_url never raises; on a provider error and on an empty
\* result set it returns None.
C15_ResolverNeverRaises ==
    ResolverReturned =>
        /\ probe.rets[1] # Raise
        /\ (probe.outcome.error \/ probe.outcome.entries = <<>>)
              => probe.rets[1] = None

\* The provider raised, or a null duration made the selection raise, and the
\* call returned None.
C15_Witness ==
    /\ ResolverReturned
    /\ TryBody(probe.outcome, probe.duration) = Raise
    /\ probe.rets = <<None>>

InDownloadTrack(p) == p \in {"download", "glob", "rename"}

\* C16: _download_track never lets an exception out: it returns the final
\* path, and then its rename has just moved the temp file to
\* "{final_filename}.mp3", or it returns None (download error, no temp file,
\* rename attempts exhausted).
C16_DownloadTrackReturns ==
    [][\A i \in Units :
          (i \in DOMAIN pc' /\ InDownloadTrack(pc[i]) /\ ~InDownloadTrack(pc'[i]))
          => \/ pc'[i] = "fetch_failed"
             \/ /\ pc'[i] = "fetched"
                /\ pc[i] = "rename"
                /\ Exists(tempFile[i])
                /\ fs' = Rename(fs, tempFile[i], final_filename(tracks[i]) \o MP3)]_vars

\* One call has returned the final path and another one None.
C16_Witness ==
    \E i, j \in Units :
        /\ pc[i] = "fetched"
        /\ Exists(FinalName(i))
        /\ pc[j] = "fetch_failed"

\* C17: when _create_zip succeeds, the archive's entries are exactly the
\* base names of the .mp3 files the source directory held (one entry per
\* file, no directory prefix), and the source directory no longer exists.
C17_ArchiveOfDirectory ==
    [][(zipStatus # "ok" /\ zipStatus' = "ok")
       => /\ zipEntries' = {f.n : f \in {g \in fs : EndsWith(g.n, MP3)}}
          /\ Cardinality(zipEntries') = Cardinality({g \in fs : EndsWith(g.n, MP3)})
          /\ zipExists'
          /\ ~dirExists'
          /\ fs' = {}]_vars

\* An archive of two files was built and the directory removed.
C17_Witness ==
    /\ zipStatus = "ok"
    /\ Cardinality(zipEntries) = 2
    /\ ~dirExists

\* C18: when the playlist lookup fails, download_playlist returns None at
\* once: no unit has been dispatched, nothing is searched or downloaded, and
\* the playlist's output directory is not created.
C18_LookupFailureEndsRun ==
    [][(cpc = "start" /\ cpc' # "listing")
       => /\ cpc' \in {"start", "returned"}
          /\ cpc' = "returned" => result' = None
          /\ tracks' = <<>> /\ pc' = <<>>
          /\ dirExists' = dirExists
          /\ fs' = fs]_vars
    /\ [][Returned => UNCHANGED <<tracks, pc, fs, dirExists, result>>]_vars

\* The run has ended on a failed lookup: no listing was obtained and the
\* directory, absent before the run, does not exist.
C18_Witness ==
    /\ Returned
    /\ result = None
    /\ tracks = <<>>
    /\ ~dirExists

\* C19: normalize_filename is idempotent, and its result contains none of
\* the characters it replaces, for every input (the empty text included).
C19_NormalizeIdempotent ==
    probe.fn = "normalize_filename" =>
        /\ \A r \in 1..Len(probe.rets) :
              \A k \in 1..Len(probe.rets[r]) : probe.rets[r][k] \notin Forbidden
        /\ Len(probe.rets) = 2 => probe.rets[2] = probe.rets[1]

\* A text with a replaced character and surrounding whitespace went through
\* both calls.
C19_Witness ==
    /\ probe.fn = "normalize_filename"
    /\ Len(probe.rets) = 2
    /\ Len(probe.text) = MaxTextLen
    /\ probe.text[1] \in Whitespace
    /\ \E k \in 1..Len(probe.text) : probe.text[k] \in Forbidden
    /\ probe.rets[1] # probe.text
    /\ probe.rets[1] # <<>>

InNormalize(p) == p \in {"norm_check", "ffmpeg", "swap_unlink", "swap_rename"}

\* C20: when ffmpeg is not available or normalization is disabled, a call of
\* _normalize_audio reports success, leaves the output directory as it is,
\* and the binary is never run.
C20_NormalizationOffIsNoOp ==
    /\ [][\A i \in Units :
            (/\ i \in DOMAIN pc'
             /\ ~ffmpeg_available \/ ~normalize_env
             /\ pc[i] = "fetched" /\ pc'[i] # "fetched"
             /\ Exists(FinalName(i)))
            => pc'[i] = "norm_ok" /\ fs' = fs]_vars
    /\ []((~ffmpeg_available \/ ~normalize_env)
            => \A i \in Units : ~InNormalize(pc[i]) /\ pc[i] # "norm_failed")

\* ffmpeg is available, normalization is disabled, and a fetched file went
\* through _normalize_audio.
C20_Witness ==
    /\ ffmpeg_available
    /\ ~normalize_env
    /\ \E i \in Units : pc[i] = "norm_ok" /\ Exists(FinalName(i))

InSwapLoop(p) == p \in {"swap_unlink", "swap_rename"}

\* C21: the retry loops are bounded and end in a reported failure. The
\* rename of the temp file is attempted at most RENAME_ATTEMPTS times, and
\* the failure of the last attempt makes _download_track return None; the
\* delete-then-rename swap is attempted at most SWAP_ATTEMPTS times, and the
\* failure of the last attempt makes _normalize_audio return False; a unit
\* in either loop leaves it.
C21_BoundedRetries ==
    /\ [](\A i \in Units :
            /\ pc[i] = "rename" => attempt[i] < RENAME_ATTEMPTS
            /\ InSwapLoop(pc[i]) => attempt[i] < SWAP_ATTEMPTS)
    /\ [][\A i \in Units :
            (i \in DOMAIN pc' /\ <<pc[i], attempt[i]>> # <<pc'[i], attempt'[i]>>)
            => /\ pc[i] = "rename" =>
                    \/ pc'[i] = "fetched"
                    \/ /\ attempt[i] + 1 < RENAME_ATTEMPTS
                       /\ pc'[i] = "rename" /\ attempt'[i] = attempt[i] + 1
                    \/ /\ attempt[i] + 1 = RENAME_ATTEMPTS
                       /\ pc'[i] = "fetch_failed"
               /\ InSwapLoop(pc[i]) =>
                    \/ pc[i] = "swap_unlink" /\ pc'[i] = "swap_rename"
                                             /\ attempt'[i] = attempt[i]
                    \/ pc[i] = "swap_rename" /\ pc'[i] = "norm_ok"
                    \/ /\ attempt[i] + 1 < SWAP_ATTEMPTS
                       /\ pc'[i] = "swap_unlink" /\ attempt'[i] = attempt[i] + 1
                    \/ /\ attempt[i] + 1 = SWAP_ATTEMPTS
                       /\ pc'[i] = "norm_failed"]_vars
    /\ \A i \in 1..Len(RetryListing) :
          (pc[i] = "rename" \/ InSwapLoop(pc[i]))
          ~> (pc[i] \in Final \cup {"fetched"})

\* One unit is at its last rename attempt while another is at its last swap
\* attempt.
C21_Witness ==
    \E i, j \in Units :
        /\ pc[i] = "rename" /\ attempt[i] = RENAME_ATTEMPTS - 1
        /\ InSwapLoop(pc[j]) /\ attempt[j] = SWAP_ATTEMPTS - 1

Leftover(name) == StartsWith(name, TEMP_PREFIX) \/ StartsWith(name, NORM_PREFIX)

\* C22: when archiving starts, and while it goes on, the output directory
\* holds no temp_* and no norm_* file, whatever the units' outcomes were, and
\* every entry of the archive is a file named "{artist} - {track}.mp3" for a
\* track of the listing or a file an earlier run delivered.
C22_NoLeftoverArchived ==
    /\ cpc \in {"zip_open", "zip_write", "rmtree"}
          => \A f \in fs : ~Leftover(f.n)
    /\ \A e \in zipEntries :
          \/ \E i \in Units : e = FinalName(i)
          \/ \E d \in InitDirs : \E f \in d : f.n = e

\* C23: the already-exists check skips a unit only when that unit's own
\* output file "{artist} - {track}.mp3" exists. Stated for a directory that
\* holds no file of an earlier run.
C23_SkipOnlyOnOwnFile ==
    [][\A i \in Units :
          (/\ i \in DOMAIN pc'
           /\ pc[i] = "queued"
           /\ pc'[i] = "exists"
           /\ \A f \in fs : f.c # "old")
          => Exists(FinalName(i))]_vars
====
